---- MODULE Spec2Model ----
(***************************************************************************)
(* Model of service.py: the UI sub-application (serve_chat_html, catch_all *)
(* and the /static mount), the VLLM service start-up, and the streaming    *)
(* generate / sights handlers.                                             *)
(***************************************************************************)
EXTENDS Integers, Sequences, FiniteSets, TLC

VARIABLES
    ui,          \* UI sub-application: the last request path and its response
    params,      \* PARAMETERS, the content of openllm_config.yaml
    svc,         \* "imported" (module loaded) or "serving" (VLLM.__init__ has run)
    routes,      \* the routes added to openai_api_app, in registration order
    apis,        \* the @bentoml.api methods the class body defined
    appState,    \* openai_api_app.state: "unset", "pending" (task scheduled), "ready"
    req          \* per request: the generate / sights handler and its output

vars == <<ui, params, svc, routes, apis, appState, req>>

svcVars == <<params, svc, routes, apis, appState, req>>

\* ------------------------------------------------------------------------
\* Bounds of the model
\* ------------------------------------------------------------------------
MaxPathLen == 3

MaxChunks == 2

\* ------------------------------------------------------------------------
\* UI sub-application
\* ------------------------------------------------------------------------
\* A path is the sequence of its '/'-separated components; an absolute path
\* starts with the empty component ("/app/ui" is <<"", "app", "ui">>).
Segments == {"", "..", "static", "app.js", "img", "app", "service.py"}

\* The files on disk: nodes are named by their components from the root.
Dirs == {<<>>, <<"app">>, <<"app", "ui">>, <<"app", "ui", "img">>}

Files == {<<"app", "service.py">>, <<"app", "openllm_config.yaml">>,
          <<"app", "ui", "chat.html">>, <<"app", "ui", "app.js">>,
          <<"app", "ui", "img", "app.js">>}

STATIC_DIR == <<"", "app", "ui">>

IsAbs(p) == p # <<>> /\ p[1] = ""

PathJoin(a, p) == IF IsAbs(p) THEN p ELSE a \o p

Parent(n) == IF n = <<>> THEN <<>> ELSE SubSeq(n, 1, Len(n) - 1)

NoEnt == [found |-> FALSE, node |-> <<>>]

\* Path resolution as the kernel does it: one component at a time, every
\* intermediate node has to be a directory, ".." goes to the parent.
RECURSIVE Walk(_, _)
Walk(cur, segs) ==
    IF segs = <<>>
    THEN IF cur \in Dirs \cup Files THEN [found |-> TRUE, node |-> cur] ELSE NoEnt
    ELSE IF cur \notin Dirs THEN NoEnt
    ELSE IF Head(segs) = "" THEN Walk(cur, Tail(segs))
    ELSE IF Head(segs) = ".." THEN Walk(Parent(cur), Tail(segs))
    ELSE Walk(Append(cur, Head(segs)), Tail(segs))

Stat(p) == Walk(<<>>, p)

PathExists(p) == Stat(p).found

NoResponse == [status |-> "none", body |-> <<>>]

NotFound == [status |-> "404", body |-> <<>>]

ServerError == [status |-> "500", body |-> <<>>]

\* FileResponse(path): the content of a regular file (a file's content is
\* identified by the node it lives at); anything else fails when sent.
FileResponse(p) ==
    IF Stat(p).found /\ Stat(p).node \in Files
    THEN [status |-> "200", body |-> Stat(p).node]
    ELSE ServerError

RECURSIVE NormPath(_)
NormPath(segs) ==
    IF segs = <<>> THEN <<>>
    ELSE LET init == NormPath(Parent(segs))
             s == segs[Len(segs)]
         IN IF s = "" THEN init
            ELSE IF s = ".." /\ init # <<>> /\ init[Len(init)] # ".." THEN Parent(init)
            ELSE Append(init, s)

\* The StaticFiles application mounted at /static: the rest of the path is
\* normalised, looked up below the directory and never outside it.
StaticFiles(directory, rest) ==
    LET p == NormPath(rest)
    IN IF p # <<>> /\ p[1] = ".." THEN NotFound
       ELSE IF Stat(directory \o p).found /\ Stat(directory \o p).node \in Files
            THEN [status |-> "200", body |-> Stat(directory \o p).node]
            ELSE NotFound

\* Routes of ui_app in registration order; the first match handles the request.
MatchesMount(path) == Len(path) >= 2 /\ path[1] = "static"

MatchesRoot(path) == path = <<>>

MatchesCatchAll(path) == path # <<>>

\* Variant: the existence check is missing.
catch_all_Unchecked(full_path) == FileResponse(PathJoin(STATIC_DIR, full_path))

catch_all(full_path) ==
    LET file_path == PathJoin(STATIC_DIR, full_path)
    IN IF PathExists(file_path)
       THEN FileResponse(file_path)
       ELSE FileResponse(PathJoin(STATIC_DIR, <<"chat.html">>))

serve_chat_html == FileResponse(PathJoin(STATIC_DIR, <<"chat.html">>))

RequestPaths == UNION {[1..k -> Segments] : k \in 0..MaxPathLen}

UIInit == ui = [path |-> <<>>, resp |-> NoResponse]

GetStatic ==
    \E path \in RequestPaths :
        /\ MatchesMount(path)
        /\ ui' = [path |-> path, resp |-> StaticFiles(STATIC_DIR, Tail(path))]
        /\ UNCHANGED svcVars

GetRoot ==
    \E path \in RequestPaths :
        /\ ~MatchesMount(path) /\ MatchesRoot(path)
        /\ ui' = [path |-> path, resp |-> serve_chat_html]
        /\ UNCHANGED svcVars

GetCatchAll ==
    \E path \in RequestPaths :
        /\ ~MatchesMount(path) /\ ~MatchesRoot(path) /\ MatchesCatchAll(path)
        /\ ui' = [path |-> path, resp |-> catch_all(path)]
        /\ UNCHANGED svcVars

\* ------------------------------------------------------------------------
\* Configuration
\* ------------------------------------------------------------------------
\* An optional key of the YAML mapping is a sequence of length 0 or 1.
Get(opt, default) == IF opt = <<>> THEN default ELSE opt[1]

Min(a, b) == IF a <= b THEN a ELSE b

DefaultMaxModelLen == 2048

MaxTokensCap == 4096

MinTokens == 128

SUPPORTS_VISION == params.vision

SUPPORTS_EMBEDDINGS == params.embeddings

MAX_TOKENS == Min(Get(params.max_model_len, DefaultMaxModelLen), MaxTokensCap)

model_id == "mistral-large"

Configs == [vision : BOOLEAN, embeddings : BOOLEAN, max_model_len : {<<>>, <<100>>, <<8192>>}]

DefaultConfig == [vision |-> FALSE, embeddings |-> FALSE, max_model_len |-> <<>>]

\* Variant: the embeddings route is appended whatever the flag says.
OPENAI_ENDPOINTS_Always(embeddings) ==
    <<[path |-> "/models", method |-> "GET"],
      [path |-> "/chat/completions", method |-> "POST"],
      [path |-> "/embeddings", method |-> "POST"]>>

\* ------------------------------------------------------------------------
\* Route composition
\* ------------------------------------------------------------------------
OPENAI_ENDPOINTS(embeddings) ==
    <<[path |-> "/models", method |-> "GET"],
      [path |-> "/chat/completions", method |-> "POST"]>>
    \o (IF embeddings THEN <<[path |-> "/embeddings", method |-> "POST"]>> ELSE <<>>)

\* Variant: sights is defined next to generate instead of inside its branch.
DefinedAPIs_Flat(vision, embeddings) ==
    (IF ~embeddings THEN {"generate"} ELSE {}) \cup (IF vision THEN {"sights"} ELSE {})

\* The class body: generate is defined when embeddings are off, sights inside
\* the same branch when vision is on.
DefinedAPIs(vision, embeddings) ==
    IF ~embeddings
    THEN {"generate"} \cup (IF vision THEN {"sights"} ELSE {})
    ELSE {}

\* ------------------------------------------------------------------------
\* Streaming handlers
\* ------------------------------------------------------------------------
Requests == {1, 2}

NOTICE == "Internal error found. Check server logs for more information"

Prompt == "ping"

\* A chunk of the completion stream; delta.content is optional.
Chunks == {[content |-> <<>>], [content |-> <<"">>], [content |-> <<"p">>]}

\* Variant: str(chunk.choices[0].delta.content)
DeltaText_Str(chunk) ==
    IF chunk.content = <<>> THEN "None" ELSE chunk.content[1]

\* chunk.choices[0].delta.content or ''
DeltaText(chunk) ==
    IF chunk.content = <<>> \/ chunk.content[1] = "" THEN "" ELSE chunk.content[1]

\* Failures the loopback client raises, and what a disconnect throws into
\* the suspended handler.
ClientFailures == {"APIConnectionError", "InternalServerError"}

IsException(kind) == kind \in ClientFailures \cup {"OSError"}

\* Variant: except openai.APIConnectionError:
Catches_ConnectionOnly(kind) == kind = "APIConnectionError"

\* Variant: a bare except:
Catches_All(kind) == TRUE

\* except Exception:
Catches(kind) == IsException(kind)

Images == {"none", "png", "unencodable"}

\* Variant: the upper bound is missing from the annotation.
ValidMaxTokens_NoUpper(max_tokens) == max_tokens >= MinTokens

\* typing.Annotated[int, Ge(128), Le(MAX_TOKENS)]
ValidMaxTokens(max_tokens) == max_tokens >= MinTokens /\ max_tokens <= MAX_TOKENS

MaxTokensInputs == {MinTokens - 1, MinTokens, MAX_TOKENS, MAX_TOKENS + 1}

Idle == [pc |-> "idle", api |-> "none", image |-> "none", max_tokens |-> 0,
         sent |-> <<>>, recv |-> <<>>, out |-> <<>>, err |-> "none", exc |-> "none",
         calls |-> 0, completion |-> "unbound", caller |-> "connected"]

TextBlock(prompt) == [type |-> "text", text |-> prompt]

ImageBlock(image) == [type |-> "image_url", url |-> <<"data:image/png;base64", image>>]

\* self.client.chat.completions.create(model=..., messages=..., stream=True, max_tokens=...)
Create(content, max_tokens) ==
    [model |-> model_id, messages |-> <<[role |-> "user", content |-> content]>>,
     stream |-> TRUE, max_tokens |-> max_tokens]

\* An exception raised inside the try block of a handler; err is the failure
\* the loopback client raised, exc is what left the handler.
RaiseInTry(h, kind) ==
    IF Catches(kind)
    THEN [h EXCEPT !.pc = "noticed", !.out = Append(h.out, NOTICE)]
    ELSE [h EXCEPT !.pc = IF IsException(kind) THEN "raised" ELSE "cancelled",
                   !.exc = kind,
                   !.completion = IF h.completion = "held" THEN "dropped" ELSE h.completion]

\* An exception raised outside the try block leaves the handler.
RaiseOutside(h, kind) ==
    [h EXCEPT !.pc = IF IsException(kind) THEN "raised" ELSE "cancelled",
              !.exc = kind,
              !.completion = IF h.completion = "held" THEN "dropped" ELSE h.completion]

Called(api, image, max_tokens) ==
    [Idle EXCEPT !.api = api, !.image = image, !.max_tokens = max_tokens]

\* generate(prompt, max_tokens) up to its first await
generate(max_tokens) ==
    LET h == Called("generate", "none", max_tokens)
    IN IF "generate" \notin apis THEN [h EXCEPT !.pc = "notfound"]
       ELSE IF ~ValidMaxTokens(max_tokens) THEN [h EXCEPT !.pc = "invalid"]
       ELSE [h EXCEPT !.pc = "dispatching", !.calls = 1,
                      !.sent = <<Create(<<TextBlock(Prompt)>>, max_tokens)>>]

\* sights(prompt, image, max_tokens) up to its first await
sights(image, max_tokens) ==
    LET h == Called("sights", image, max_tokens)
    IN IF "sights" \notin apis THEN [h EXCEPT !.pc = "notfound"]
       ELSE IF ~ValidMaxTokens(max_tokens) THEN [h EXCEPT !.pc = "invalid"]
       ELSE IF image = "unencodable" THEN RaiseOutside(h, "OSError")
       ELSE [h EXCEPT !.pc = "dispatching", !.calls = 1,
                      !.sent = <<Create(IF image # "none"
                                        THEN <<ImageBlock(image), TextBlock(Prompt)>>
                                        ELSE <<TextBlock(Prompt)>>, max_tokens)>>]

reqUnchanged == UNCHANGED <<ui, params, svc, routes, apis, appState>>

CallGenerate(r) ==
    /\ svc = "serving" /\ req[r].pc = "idle"
    /\ \E max_tokens \in MaxTokensInputs :
           req' = [req EXCEPT ![r] = generate(max_tokens)]
    /\ reqUnchanged

CallSights(r) ==
    /\ svc = "serving" /\ req[r].pc = "idle"
    /\ \E image \in Images, max_tokens \in MaxTokensInputs :
           req' = [req EXCEPT ![r] = sights(image, max_tokens)]
    /\ reqUnchanged

\* The loopback request reaches /chat/completions and the stream is returned.
CreateOk(r) ==
    /\ req[r].pc = "dispatching" /\ appState = "ready"
    /\ req' = [req EXCEPT ![r].pc = "iterating", ![r].completion = "held"]
    /\ reqUnchanged

\* The loopback request fails; it cannot succeed while the app state is unset.
CreateFail(r) ==
    /\ req[r].pc = "dispatching"
    /\ \E kind \in ClientFailures :
           /\ appState # "ready" => kind = "InternalServerError"
           /\ req' = [req EXCEPT ![r] = RaiseInTry([req[r] EXCEPT !.err = kind], kind)]
    /\ reqUnchanged

\* async for chunk in completion: yield chunk.choices[0].delta.content or ''
Chunk(r) ==
    /\ req[r].pc = "iterating" /\ Len(req[r].recv) < MaxChunks
    /\ \E chunk \in Chunks :
           req' = [req EXCEPT ![r].pc = "yielded",
                              ![r].recv = Append(@, chunk),
                              ![r].out = Append(@, DeltaText(chunk))]
    /\ reqUnchanged

\* The caller asks for the next element.
Resume(r) ==
    /\ req[r].pc = "yielded"
    /\ req' = [req EXCEPT ![r].pc = "iterating"]
    /\ reqUnchanged

StreamEnd(r) ==
    /\ req[r].pc = "iterating"
    /\ req' = [req EXCEPT ![r].pc = "done", ![r].completion = "dropped"]
    /\ reqUnchanged

StreamFail(r) ==
    /\ req[r].pc = "iterating"
    /\ \E kind \in ClientFailures :
           req' = [req EXCEPT ![r] = RaiseInTry([req[r] EXCEPT !.err = kind], kind)]
    /\ reqUnchanged

\* After the notice: return
Return(r) ==
    /\ req[r].pc = "noticed" /\ req[r].caller = "connected"
    /\ req' = [req EXCEPT ![r].pc = "done",
                          ![r].completion = IF @ = "held" THEN "dropped" ELSE @]
    /\ reqUnchanged

\* The caller disconnects: CancelledError at an await, GeneratorExit at a yield.
Disconnect(r) ==
    /\ req[r].caller = "connected"
    /\ req[r].pc \in {"dispatching", "iterating", "yielded", "noticed"}
    /\ LET h == [req[r] EXCEPT !.caller = "gone"]
       IN req' = [req EXCEPT ![r] =
                      IF h.pc \in {"dispatching", "iterating"} THEN RaiseInTry(h, "CancelledError")
                      ELSE IF h.pc = "yielded" THEN RaiseInTry(h, "GeneratorExit")
                      ELSE RaiseOutside(h, "GeneratorExit")]
    /\ reqUnchanged

\* ------------------------------------------------------------------------
\* Start-up
\* ------------------------------------------------------------------------
\* VLLM.__init__: routes, engine, the scheduled init_app_state task, the client.
ServiceInit ==
    /\ svc = "imported"
    /\ routes' = routes \o OPENAI_ENDPOINTS(SUPPORTS_EMBEDDINGS)
    /\ appState' = "pending"
    /\ svc' = "serving"
    /\ UNCHANGED <<ui, params, apis, req>>

\* The task created for init_app_state runs to completion.
InitAppState ==
    /\ appState = "pending"
    /\ appState' = "ready"
    /\ UNCHANGED <<ui, params, svc, routes, apis, req>>

Handler(r) ==
    \/ CreateOk(r) \/ CreateFail(r) \/ Chunk(r) \/ Resume(r)
    \/ StreamEnd(r) \/ StreamFail(r) \/ Return(r) \/ Disconnect(r)

Init ==
    /\ UIInit
    /\ params \in Configs
    /\ svc = "imported"
    /\ routes = <<>>
    /\ apis = DefinedAPIs(SUPPORTS_VISION, SUPPORTS_EMBEDDINGS)
    /\ appState = "unset"
    /\ req = [r \in Requests |-> Idle]

Next ==
    \/ ServiceInit
    \/ InitAppState
    \/ CallGenerate(1)
    \/ CallSights(1)
    \/ Handler(1)

Spec == Init /\ [][Next]_vars

\* A sights and a generate request in flight together against a started service.
InitPair ==
    /\ UIInit
    /\ params = [DefaultConfig EXCEPT !.vision = TRUE]
    /\ svc = "serving"
    /\ routes = OPENAI_ENDPOINTS(SUPPORTS_EMBEDDINGS)
    /\ apis = DefinedAPIs(SUPPORTS_VISION, SUPPORTS_EMBEDDINGS)
    /\ appState = "ready"
    /\ req = [r \in Requests |-> Idle]

NextPair ==
    \/ CallSights(1)
    \/ CallGenerate(2)
    \/ \E r \in Requests : Handler(r)

SpecPair == InitPair /\ [][NextPair]_vars

InitUI ==
    /\ UIInit
    /\ params = DefaultConfig
    /\ svc = "imported"
    /\ routes = <<>>
    /\ apis = DefinedAPIs(SUPPORTS_VISION, SUPPORTS_EMBEDDINGS)
    /\ appState = "unset"
    /\ req = [r \in Requests |-> Idle]

NextUI == GetStatic \/ GetRoot \/ GetCatchAll

SpecUI == InitUI /\ [][NextUI]_vars

\* ------------------------------------------------------------------------
\* Properties
\* ------------------------------------------------------------------------
EntryDocument == [status |-> "200", body |-> <<"app", "ui", "chat.html">>]

\* C1: a failure of the loopback client, at dispatch or after k re-emitted
\* chunks, makes the handler emit the k texts followed by exactly one NOTICE,
\* whatever the failure is; the handler then only returns (or is closed), no
\* element follows the notice and no exception leaves the handler.
C1_FailureContained ==
    [][\A r \in Requests :
          /\ req'[r].err \in ClientFailures =>
                /\ req'[r].api \in {"generate", "sights"}
                /\ req'[r].pc \in {"noticed", "done", "cancelled"}
                /\ req'[r].exc \in {"none", "GeneratorExit"}
                /\ Len(req'[r].out) = Len(req'[r].recv) + 1
                /\ req'[r].out[Len(req'[r].out)] = NOTICE
                /\ \A i \in 1..Len(req'[r].recv) :
                       /\ req'[r].out[i] # NOTICE
                       /\ req'[r].out[i] = (IF req'[r].recv[i].content = <<>> THEN ""
                                            ELSE req'[r].recv[i].content[1])
          /\ (req[r].pc = "noticed" /\ req'[r] # req[r]) =>
                /\ req'[r].out = req[r].out
                /\ req'[r].pc = (IF req'[r].caller = "connected" THEN "done" ELSE "cancelled")
          /\ (req[r].pc = "done" /\ req[r].err \in ClientFailures) => req'[r] = req[r]
      ]_vars

C1_Witness ==
    /\ req[1].api = "sights" /\ req[1].pc = "done"
    /\ req[1].err = "InternalServerError"
    /\ Len(req[1].recv) >= 1
    /\ req[1].out = Append([i \in 1..Len(req[1].recv) |-> DeltaText(req[1].recv[i])], NOTICE)

\* C2: a sights request whose image cannot be encoded yields exactly the
\* NOTICE and a normal end of stream, with no exception reaching the caller.
C2_EncodeFailureContained ==
    \A r \in Requests :
        (req[r].api = "sights" /\ req[r].image = "unencodable"
            /\ req[r].pc \notin {"idle", "notfound", "invalid"})
        => (req[r].pc \in {"noticed", "done"} /\ req[r].out = <<NOTICE>>)

\* C3: a request to an exposed endpoint whose max_tokens is below 128 or
\* above MAX_TOKENS is rejected with no client call, nothing sent and nothing
\* streamed; one whose max_tokens is in range is not rejected and the request
\* it sends carries that same max_tokens.
C3_MaxTokensChecked ==
    \A r \in Requests :
        req[r].pc \notin {"idle", "notfound"} =>
            /\ (req[r].max_tokens < 128 \/ req[r].max_tokens > MAX_TOKENS) =>
                  /\ req[r].pc = "invalid"
                  /\ req[r].calls = 0 /\ req[r].sent = <<>> /\ req[r].out = <<>>
            /\ (req[r].max_tokens >= 128 /\ req[r].max_tokens <= MAX_TOKENS) =>
                  /\ req[r].pc # "invalid"
                  /\ req[r].image # "unencodable" =>
                        (req[r].calls = 1 /\ Len(req[r].sent) = 1)
                  /\ req[r].sent # <<>> => req[r].sent[1].max_tokens = req[r].max_tokens

C3_Witness ==
    /\ req[1].pc = "invalid" /\ req[1].max_tokens = MAX_TOKENS + 1
    /\ MAX_TOKENS = 4096 /\ req[1].calls = 0

\* C4: while no failure has occurred, and in particular when the stream has
\* ended, the output of each request has one element per chunk it received,
\* in order: the chunk's text, or "" for a chunk without text; this holds
\* for each of two requests in flight together.
C4_StreamRelayed ==
    \A r \in Requests :
        req[r].err \notin ClientFailures =>
            /\ Len(req[r].out) = Len(req[r].recv)
            /\ \A i \in 1..Len(req[r].recv) :
                   /\ req[r].recv[i].content = <<>> => req[r].out[i] = ""
                   /\ req[r].recv[i].content # <<>> => req[r].out[i] = req[r].recv[i].content[1]
            /\ req[r].pc = "done" => req[r].completion = "dropped"

C4_Witness ==
    /\ req[1].api = "sights" /\ req[1].pc = "done" /\ req[1].err = "none"
    /\ req[1].out = <<"p", "">> /\ req[1].recv[2].content = <<>>
    /\ req[2].api = "generate" /\ req[2].pc = "yielded" /\ req[2].out = <<"", "p">>

\* C5: once the service is started the OpenAI route table holds GET /models
\* and POST /chat/completions exactly once each, POST /embeddings exactly once
\* when embeddings are supported and not at all otherwise, and no step
\* changes the table afterwards.
C5_RouteTable ==
    [][/\ svc' = "serving" =>
             LET Count(p, m) == Cardinality({i \in DOMAIN routes' :
                                    routes'[i] = [path |-> p, method |-> m]})
             IN /\ Count("/models", "GET") = 1
                /\ Count("/chat/completions", "POST") = 1
                /\ Count("/embeddings", "POST") = (IF params'.embeddings THEN 1 ELSE 0)
                /\ \A i \in DOMAIN routes' : routes'[i].path = "/embeddings" => params'.embeddings
       /\ svc = "serving" => routes' = routes
      ]_vars

C5_Witness ==
    /\ svc = "serving" /\ ~params.embeddings /\ Len(routes) = 2
    /\ req[1].pc = "yielded"

\* C6: generate is exposed exactly when embeddings are off, sights exactly
\* when vision is on and embeddings are off; with both flags off the started
\* service has chat completions and no embeddings route; a sights request
\* without vision is rejected before anything is sent or streamed.
C6_Endpoints ==
    /\ "generate" \in apis <=> ~params.embeddings
    /\ "sights" \in apis <=> (params.vision /\ ~params.embeddings)
    /\ (svc = "serving" /\ ~params.vision /\ ~params.embeddings) =>
          /\ apis = {"generate"}
          /\ \E i \in DOMAIN routes : routes[i].path = "/chat/completions"
          /\ \A i \in DOMAIN routes : routes[i].path # "/embeddings"
    /\ \A r \in Requests :
          (req[r].api = "sights" /\ ~params.vision) =>
              /\ req[r].pc = "notfound"
              /\ req[r].calls = 0 /\ req[r].sent = <<>> /\ req[r].out = <<>>

C6_Witness ==
    /\ ~params.vision /\ ~params.embeddings
    /\ req[1].api = "sights" /\ req[1].pc = "notfound"

C8_Confined ==
    ui.resp.status = "200" =>
        (Len(ui.resp.body) >= 2 /\ SubSeq(ui.resp.body, 1, 2) = <<"app", "ui">>)

\* C9: no generate or sights handler is running, and no loopback request is
\* in flight, while openai_api_app.state is not initialised.
C9_StateReadyBeforeRequests ==
    \A r \in Requests :
        req[r].pc \in {"dispatching", "iterating", "yielded", "noticed"} => appState = "ready"

====
